---- MODULE Spec2Model ----
(***************************************************************************)
(* Model of utils/src-tree-patcher/patcher.py: class SrcTreePatcher.        *)
(*                                                                         *)
(* A text is a sequence of one-character strings.  A file of a tree is a   *)
(* record [kind, text]; a local variable of patch_all is a record          *)
(* [bound, text], because the code can reach a use of dst_text or src_text *)
(* before any assignment to it.                                            *)
(*                                                                         *)
(* diff_match_patch is imported (line 14) and is not part of the           *)
(* repository's sources: patch_make and patch_apply are modelled from the  *)
(* description of the patch engine (hunks with context, located at the     *)
(* expected offset first and searched for otherwise).                      *)
(***************************************************************************)
EXTENDS Integers, Sequences, FiniteSets, TLC

\* ------------------------------------------------------------------ bounds
\* Longest text handed to the patch engine in SpecEngine.
MaxLen == 2

\* Longest content of a file of the src and dst trees.
MaxFileLen == 1

\* Longest file list.
MaxList == 2

Chars == {"h", "w"}

Paths == {"a.txt", "b.txt"}

\* ------------------------------------------------------------------- texts
TextsUpTo(n) == UNION {[1..k -> Chars] : k \in 0..n}

Min(x, y) == IF x < y THEN x ELSE y

Max(x, y) == IF x > y THEN x ELSE y

Abs(x) == IF x < 0 THEN -x ELSE x

\* text[i:j] of Python, 0-based and half-open, clipped to the text.
Slice(text, i, j) == SubSeq(text, Max(i, 0) + 1, Min(j, Len(text)))

Range(s) == {s[i] : i \in 1..Len(s)}

\* -------------------------------------------------------- the patch engine
\* Characters of context kept on each side of a hunk.
Patch_Margin == 1

RECURSIVE Diff(_, _)
\* An edit script from a to b: "=" keeps, "-" deletes a character of a,
\* "+" inserts a character of b.  Deterministic, not minimal.
Diff(a, b) ==
    IF a = <<>> THEN [i \in 1..Len(b) |-> [op |-> "+", ch |-> b[i]]]
    ELSE IF b = <<>> THEN [i \in 1..Len(a) |-> [op |-> "-", ch |-> a[i]]]
    ELSE IF Head(a) = Head(b)
         THEN <<[op |-> "=", ch |-> Head(a)]>> \o Diff(Tail(a), Tail(b))
    ELSE IF Head(a) \in Range(b)
         THEN <<[op |-> "+", ch |-> Head(b)]>> \o Diff(a, Tail(b))
    ELSE <<[op |-> "-", ch |-> Head(a)]>> \o Diff(Tail(a), b)

\* The characters of the ops of kind op among ops[i..j].
RECURSIVE OpText(_, _, _, _)
OpText(ops, i, j, op) ==
    IF i > j THEN <<>>
    ELSE (IF ops[i].op = op THEN <<ops[i].ch>> ELSE <<>>) \o OpText(ops, i + 1, j, op)

\* The last index of the run of changes ("-" and "+") that starts at i.
RECURSIVE RunEnd(_, _)
RunEnd(ops, i) ==
    IF i < Len(ops) /\ ops[i + 1].op # "=" THEN RunEnd(ops, i + 1) ELSE i

\* The hunks of ops[i..], where p1 characters of the base text a and p2
\* characters of the goal text b lie before ops[i].  A hunk is a maximal run
\* of changes with its context: start2 is its offset in the text as patched
\* so far, text1 what it expects there and text2 what it leaves there.
RECURSIVE Hunks(_, _, _, _, _, _)
Hunks(ops, i, p1, p2, a, b) ==
    IF i > Len(ops) THEN <<>>
    ELSE IF ops[i].op = "=" THEN Hunks(ops, i + 1, p1 + 1, p2 + 1, a, b)
    ELSE LET j    == RunEnd(ops, i)
             del  == OpText(ops, i, j, "-")
             ins  == OpText(ops, i, j, "+")
             pre  == Slice(b, p2 - Patch_Margin, p2)
             post == Slice(a, p1 + Len(del), p1 + Len(del) + Patch_Margin)
         IN  <<[start2 |-> p2 - Len(pre),
                text1  |-> pre \o del \o post,
                text2  |-> pre \o ins \o post]>>
             \o Hunks(ops, j + 1, p1 + Len(del), p2 + Len(ins), a, b)

\* dmp.patch_make(text1, text2): the patch that turns text1 into text2.
patch_make(text1, text2) == Hunks(Diff(text1, text2), 1, 0, 0, text1, text2)

\* Where pattern is found in text, looking at loc first and then at the
\* occurrence nearest to loc (the lower one of two equally near); -1: nowhere.
match_main(text, pattern, loc) ==
    LET at   == Max(0, Min(loc, Len(text)))
        occ  == {k \in 0..(Len(text) - Len(pattern)) :
                    Slice(text, k, k + Len(pattern)) = pattern}
        best == {k \in occ : \A o \in occ :
                    Abs(k - at) < Abs(o - at) \/ (Abs(k - at) = Abs(o - at) /\ k <= o)}
    IN  IF at \in occ THEN at
        ELSE IF occ = {} THEN -1
        ELSE CHOOSE k \in best : TRUE

\* Hunks k.. of patch applied to text; delta is the drift of the hunks placed
\* so far.  ok[k] is the engine's own verdict on hunk k once located: a hunk
\* is applied when it is located and accepted, and reported failed otherwise.
RECURSIVE ApplyFrom(_, _, _, _, _, _)
ApplyFrom(patch, k, text, delta, results, ok) ==
    IF k > Len(patch) THEN [out_text |-> text, results |-> results]
    ELSE LET h   == patch[k]
             exp == h.start2 + delta
             loc == match_main(text, h.text1, exp)
         IN  IF loc = -1 \/ ~ok[k]
             THEN ApplyFrom(patch, k + 1, text,
                            delta - (Len(h.text2) - Len(h.text1)),
                            Append(results, FALSE), ok)
             ELSE ApplyFrom(patch, k + 1,
                            Slice(text, 0, loc) \o h.text2
                                \o Slice(text, loc + Len(h.text1), Len(text)),
                            loc - exp,
                            Append(results, TRUE), ok)

\* patch_apply with the engine's verdicts given.
patch_apply_lib(patch, text, ok) == ApplyFrom(patch, 1, text, 0, <<>>, ok)

\* dmp.patch_apply(patches, text): (new text, one flag per hunk).
patch_apply(patch, text) == patch_apply_lib(patch, text, [k \in 1..Len(patch) |-> TRUE])

\* A slip: any() where all() is meant.
all_is_any(results) == \E k \in 1..Len(results) : results[k]

\* Python's all().
all(results) == \A k \in 1..Len(results) : results[k]

\* -------------------------------------------------------------- the state
VARIABLES
    file_list,      \* self.file_list: relative paths, in order
    src_tree,       \* the files under src_dir_prefix
    dst_tree,       \* the files under dst_dir_prefix
    idx,            \* position in file_list of the entry of the for loop (0: none yet)
    pc,             \* where control is
    exc,            \* the exception that ended the run, "none" otherwise
    dst_text,       \* local of patch_all
    src_text,       \* local of patch_all
    upstream_text,  \* generate_patchset's first argument at its last call
    local_text,     \* generate_patchset's second argument at its last call
    in_text,        \* apply_patchset's first argument at its last call
    patch,          \* self.patch
    out_text,       \* self.out_text
    results,        \* self.results
    stdout,         \* what was printed: <<[msg, idx]>>
    fs_log,         \* the file-system changes made: <<[op, tree, path, idx]>>
    dst_before      \* the file at dst_path when the entry's iteration began

vars == <<file_list, src_tree, dst_tree, idx, pc, exc, dst_text, src_text,
          upstream_text, local_text, in_text, patch, out_text, results,
          stdout, fs_log, dst_before>>

Absent == [kind |-> "absent", text |-> <<>>]

Unreadable == [kind |-> "unreadable", text |-> <<>>]

File(t) == [kind |-> "file", text |-> t]

Unbound == [bound |-> FALSE, text |-> <<>>]

Bound(t) == [bound |-> TRUE, text |-> t]

None == "None"

DstFiles == {Absent} \cup {File(t) : t \in TextsUpTo(MaxFileLen)}

SrcFiles == {Absent, Unreadable} \cup {File(t) : t \in TextsUpTo(MaxFileLen)}

FileLists == UNION {[1..n -> Paths] : n \in 0..MaxList}

\* The object after __init__ (lines 18-22) and before any call; the locals
\* of patch_all are unbound and self.patch, self.out_text, self.results unset.
Fresh ==
    /\ idx = 0
    /\ exc = "none"
    /\ dst_text = Unbound
    /\ src_text = Unbound
    /\ upstream_text = Unbound
    /\ local_text = Unbound
    /\ in_text = Unbound
    /\ patch = <<>>
    /\ out_text = <<>>
    /\ results = <<>>
    /\ stdout = <<>>
    /\ fs_log = <<>>
    /\ dst_before = Absent

\* A call of patch_all on any file list and any two trees.
Init ==
    /\ file_list \in FileLists
    /\ src_tree \in [Paths -> SrcFiles]
    /\ dst_tree \in [Paths -> DstFiles]
    /\ pc = "loop"
    /\ Fresh

rel_fname == file_list[idx]

\* Line 50: the file of the src tree that the entry names.
src_path == rel_fname

\* A slip: a path left hard-coded.
dst_path_hard_coded == "b.txt"

\* Line 51: the file of the dst tree that the entry names.
dst_path == rel_fname

Say(msg) == stdout' = Append(stdout, [msg |-> msg, idx |-> idx])

\* A read or a change of a file of a tree.
FsOn(op, tree, path) ==
    fs_log' = Append(fs_log, [op |-> op, tree |-> tree, path |-> path, idx |-> idx])

Fs(op, path) == FsOn(op, "dst", path)

\* ------------------------------------------------- generate_patchset (24-27)
\* A slip: the two texts handed to patch_make in the other order.
generate_patchset_swapped(upstream, local) == patch_make(local, upstream)

generate_patchset(upstream, local) == patch_make(upstream, local)

\* ---------------------------------------------------- apply_patchset (29-37)
\* A slip: the failure is printed and the run goes on with the next entry.
SysExit_goes_on == [pc |-> "loop", exc |-> "none"]

\* What the line would do with sys imported: SystemExit with no argument.
SysExit_imported == [pc |-> "raised", exc |-> "SystemExit"]

\* sys.exit() at line 34: sys is not imported (lines 11-14), so the name
\* lookup raises NameError and the exception leaves apply_patchset.
SysExit == [pc |-> "raised", exc |-> "NameError"]

\* A slip: the text handed in is written back, not the patched one.
WrittenText_in_text(r, t) == t

\* What line 37 writes.
WrittenText(r, t) == r.out_text

\* A slip: lines 35-37 placed before the test of line 32, so that the text
\* is written whatever the flags are.
apply_patchset_writes_first(t, out_file_path, ok, ret) ==
    LET r == patch_apply_lib(patch, t, ok)
    IN  /\ in_text' = Bound(t)
        /\ out_text' = r.out_text
        /\ results' = r.results
        /\ IF out_file_path # None
           THEN /\ dst_tree' = [dst_tree EXCEPT ![out_file_path] = File(WrittenText(r, t))]
                /\ Fs("write", out_file_path)
           ELSE UNCHANGED <<dst_tree, fs_log>>
        /\ IF ~all(r.results)
           THEN /\ Say("Some results were false!")
                /\ pc' = SysExit.pc
                /\ exc' = SysExit.exc
           ELSE /\ pc' = ret
                /\ UNCHANGED <<exc, stdout>>

\* apply_patchset(t, out_file_path) with the engine's verdicts ok; control
\* goes to ret when it returns.
apply_patchset(t, out_file_path, ok, ret) ==
    LET r == patch_apply_lib(patch, t, ok)
    IN  /\ in_text' = Bound(t)
        /\ out_text' = r.out_text
        /\ results' = r.results
        /\ IF ~all(r.results)
           THEN /\ Say("Some results were false!")
                /\ pc' = SysExit.pc
                /\ exc' = SysExit.exc
                /\ UNCHANGED <<dst_tree, fs_log>>
           ELSE /\ IF out_file_path # None
                   THEN /\ dst_tree' = [dst_tree EXCEPT ![out_file_path] = File(WrittenText(r, t))]
                        /\ Fs("write", out_file_path)
                   ELSE UNCHANGED <<dst_tree, fs_log>>
                /\ pc' = ret
                /\ UNCHANGED <<exc, stdout>>

\* --------------------------------------------------------- patch_all (45-84)
\* A slip: the loop steps over every other entry.
NextIndex_skips(i) == Min(i + 2, Len(file_list))

\* Line 48: the position the for statement takes after position i.
NextIndex(i) == i + 1

\* Lines 48-52: the for loop takes the next entry.
NextEntry ==
    /\ pc = "loop"
    /\ idx < Len(file_list)
    /\ idx' = NextIndex(idx)
    /\ dst_before' = dst_tree[file_list[NextIndex(idx)]]
    /\ stdout' = Append(stdout, [msg |-> "Patching", idx |-> NextIndex(idx)])
    /\ pc' = "dst"
    /\ UNCHANGED <<file_list, src_tree, dst_tree, exc, dst_text, src_text,
                   upstream_text, local_text, in_text, patch, out_text, results, fs_log>>

\* Line 48: the list is exhausted and patch_all returns.
LoopExit ==
    /\ pc = "loop"
    /\ idx = Len(file_list)
    /\ pc' = "returned"
    /\ UNCHANGED <<file_list, src_tree, dst_tree, idx, exc, dst_text, src_text,
                   upstream_text, local_text, in_text, patch, out_text, results,
                   stdout, fs_log, dst_before>>

\* Lines 55-62: dst_text after the block, given the file at dst_path and the
\* value dst_text had before.  The except branch assigns nothing to it.
DstTextAfterOpen(f, old) == IF f.kind = "file" THEN Bound(f.text) ELSE old

\* Lines 54-62: read the dst file, or create it empty.
HandleDst ==
    /\ pc = "dst"
    /\ dst_text' = DstTextAfterOpen(dst_tree[dst_path], dst_text)
    /\ IF dst_tree[dst_path].kind = "file"
       THEN /\ Fs("read", dst_path)
            /\ UNCHANGED <<dst_tree, stdout>>
       ELSE /\ dst_tree' = [dst_tree EXCEPT ![dst_path] = File(<<>>)]
            /\ Fs("touch", dst_path)
            /\ Say("Created the missing dst file")
    /\ pc' = "src"
    /\ UNCHANGED <<file_list, src_tree, idx, exc, src_text, upstream_text, local_text,
                   in_text, patch, out_text, results, dst_before>>

\* A slip: a size test that no file passes.
SrcIsEmpty_never(f) == f.kind = "file" /\ Len(f.text) < 0

\* Line 69: os.path.getsize(src_path) == 0, reached when open succeeded.
SrcIsEmpty(f) == f.kind = "file" /\ Len(f.text) = 0

\* Line 73, and the except branch of lines 74-76, which assigns nothing.
SrcTextAfterOpen(f, old) == IF f.kind = "file" THEN Bound(f.text) ELSE old

\* A slip: the loop goes on after the removal.
AfterRemove_continue == "loop"

\* Line 72: where control goes once the dst file is removed.
AfterRemove == "returned"

\* A slip: os.remove(src_path).
RemovedTree_src == "src"

\* Line 70: the tree whose file os.remove(dst_path) removes.
RemovedTree == "dst"

\* Lines 64-76: read the src file; an empty one removes the dst file.
HandleSrc ==
    /\ pc = "src"
    /\ IF SrcIsEmpty(src_tree[src_path])
       THEN /\ dst_tree' = IF RemovedTree = "dst"
                           THEN [dst_tree EXCEPT ![dst_path] = Absent] ELSE dst_tree
            /\ src_tree' = IF RemovedTree = "src"
                           THEN [src_tree EXCEPT ![src_path] = Absent] ELSE src_tree
            /\ FsOn("remove", RemovedTree, rel_fname)
            /\ Say("Removed dst due to empty src")
            /\ pc' = AfterRemove
            /\ UNCHANGED src_text
       ELSE /\ src_text' = SrcTextAfterOpen(src_tree[src_path], src_text)
            /\ IF src_tree[src_path].kind = "file"
               THEN /\ FsOn("read", "src", src_path)
                    /\ UNCHANGED stdout
               ELSE /\ Say("Could not open or read file")
                    /\ UNCHANGED fs_log
            /\ pc' = "diff"
            /\ UNCHANGED <<dst_tree, src_tree>>
    /\ UNCHANGED <<file_list, idx, exc, dst_text, upstream_text, local_text,
                   in_text, patch, out_text, results, dst_before>>

\* Line 82: self.generate_patchset(dst_text, src_text).  Reading a local that
\* was never assigned raises UnboundLocalError, which nothing catches.
GeneratePatchset ==
    /\ pc = "diff"
    /\ IF dst_text.bound /\ src_text.bound
       THEN /\ upstream_text' = dst_text
            /\ local_text' = src_text
            /\ patch' = generate_patchset(dst_text.text, src_text.text)
            /\ pc' = "apply"
            /\ UNCHANGED exc
       ELSE /\ pc' = "raised"
            /\ exc' = "UnboundLocalError"
            /\ UNCHANGED <<upstream_text, local_text, patch>>
    /\ UNCHANGED <<file_list, src_tree, dst_tree, idx, dst_text, src_text, in_text,
                   out_text, results, stdout, fs_log, dst_before>>

\* Line 83: self.apply_patchset(dst_text, dst_path).
ApplyPatchset ==
    /\ pc = "apply"
    /\ apply_patchset(dst_text.text, dst_path, [k \in 1..Len(patch) |-> TRUE], "loop")
    /\ UNCHANGED <<file_list, src_tree, idx, dst_text, src_text, upstream_text,
                   local_text, patch, dst_before>>

Next == NextEntry \/ LoopExit \/ HandleDst \/ HandleSrc \/ GeneratePatchset \/ ApplyPatchset

Spec == Init /\ [][Next]_vars

\* ------------------------------------------ the run with the engine's verdicts free
\* Line 83 again, with patch_apply free to report any located hunk as failed:
\* the flags are what the imported engine returns, whatever its reasons.
ApplyPatchsetLib ==
    /\ pc = "apply"
    /\ \E ok \in [1..Len(patch) -> BOOLEAN] :
           apply_patchset(dst_text.text, dst_path, ok, "loop")
    /\ UNCHANGED <<file_list, src_tree, idx, dst_text, src_text, upstream_text,
                   local_text, patch, dst_before>>

NextLib == NextEntry \/ LoopExit \/ HandleDst \/ HandleSrc \/ GeneratePatchset \/ ApplyPatchsetLib

SpecLib == Init /\ [][NextLib]_vars

\* ------------------------------------------- the two methods called directly
\* A caller other than patch_all: generate_patchset(A, B), then
\* apply_patchset(T) with no out_file_path, for any texts A, B and T.
InitEngine ==
    /\ file_list = <<>>
    /\ src_tree = [p \in Paths |-> Absent]
    /\ dst_tree = [p \in Paths |-> Absent]
    /\ pc = "call_generate"
    /\ Fresh

CallGenerate ==
    /\ pc = "call_generate"
    /\ \E A \in TextsUpTo(MaxLen), B \in TextsUpTo(MaxLen) :
           /\ upstream_text' = Bound(A)
           /\ local_text' = Bound(B)
           /\ patch' = generate_patchset(A, B)
    /\ pc' = "call_apply"
    /\ UNCHANGED <<file_list, src_tree, dst_tree, idx, exc, dst_text, src_text, in_text,
                   out_text, results, stdout, fs_log, dst_before>>

CallApply ==
    /\ pc = "call_apply"
    /\ \E T \in TextsUpTo(MaxLen) :
           apply_patchset(T, None, [k \in 1..Len(patch) |-> TRUE], "call_done")
    /\ UNCHANGED <<file_list, src_tree, idx, dst_text, src_text, upstream_text,
                   local_text, patch, dst_before>>

NextEngine == CallGenerate \/ CallApply

SpecEngine == InitEngine /\ [][NextEngine]_vars

\* ------------------------------------------------------------------ claims
\* apply_patchset has been called and is over, by return or by exception.
Applied == in_text.bound /\ pc \in {"call_done", "raised"}

\* C1: for every pair of texts (A, B), empty ones included, applying the patch
\* of generate_patchset(A, B) to the exact text A gives the text B with every
\* per-hunk flag true, and apply_patchset does not take its failure branch.
C1_RoundTrip ==
    (Applied /\ in_text = upstream_text)
        => /\ out_text = local_text.text
           /\ all(results)
           /\ Len(results) = Len(patch)
           /\ pc = "call_done"
           /\ exc = "none"

\* C1 witness: a patch of two hunks applied to its own base, which is not the goal.
C1_Witness ==
    /\ Applied /\ in_text = upstream_text
    /\ upstream_text.text # local_text.text
    /\ Len(results) = 2
    /\ out_text = local_text.text

\* C1 witness: the pair with an empty goal text.
C1_WitnessEmpty ==
    /\ Applied /\ in_text = upstream_text
    /\ upstream_text.text # <<>> /\ local_text.text = <<>>
    /\ out_text = <<>>

\* --------------------------------------------------- claims about patch_all
\* The iteration of entry idx is over: control is back at the for statement,
\* or patch_all has returned or raised during or after it.
EntryOver == idx >= 1 /\ pc \in {"loop", "returned", "raised"}

SrcNonEmpty(f) == f.kind = "file" /\ Len(f.text) > 0

SrcZeroLength(f) == f = File(<<>>)

SrcMissing(f) == f.kind \in {"absent", "unreadable"}

\* The dst file of entry i was created, written, removed in the run.
Did(op, i) == \E k \in 1..Len(fs_log) : fs_log[k].op = op /\ fs_log[k].idx = i

Said(msg, i) == \E k \in 1..Len(stdout) : stdout[k].msg = msg /\ stdout[k].idx = i

\* No path occurs twice in the file list (the behaviour the two trees define
\* for a repeated path is left open).
Distinct == \A i, j \in 1..Len(file_list) : file_list[i] = file_list[j] => i = j

\* C2: for an entry whose dst file exists and whose src file exists and is
\* not empty, once the entry is processed the dst file's content equals the
\* src file's content.
C2_PatchedEqualsSrc ==
    (EntryOver /\ dst_before.kind = "file" /\ SrcNonEmpty(src_tree[rel_fname]))
        => dst_tree[rel_fname] = File(src_tree[rel_fname].text)

\* C2 witness: an existing dst file that differed from its src file and was rewritten.
C2_Witness ==
    /\ EntryOver /\ dst_before.kind = "file" /\ SrcNonEmpty(src_tree[rel_fname])
    /\ dst_before.text # src_tree[rel_fname].text
    /\ Did("write", idx)
    /\ dst_tree[rel_fname] = File(src_tree[rel_fname].text)

\* C3: if the src file of an entry is present with zero length, then once the
\* entry is processed its dst file does not exist, whatever it was before, and
\* was not written for that entry.
C3_EmptySrcDeletes ==
    (EntryOver /\ SrcZeroLength(src_tree[rel_fname]))
        => /\ dst_tree[rel_fname] = Absent
           /\ Did("remove", idx)
           /\ ~Did("write", idx)

\* C3 witness: the dst file was missing, was created empty and then removed.
C3_Witness ==
    /\ EntryOver /\ SrcZeroLength(src_tree[rel_fname])
    /\ dst_before = Absent
    /\ Did("touch", idx) /\ Did("remove", idx)
    /\ dst_tree[rel_fname] = Absent

\* C3 witness of the other case: an existing dst file with content was removed.
C3_WitnessExisting ==
    /\ EntryOver /\ SrcZeroLength(src_tree[rel_fname])
    /\ dst_before.kind = "file" /\ dst_before.text # <<>>
    /\ dst_tree[rel_fname] = Absent

\* C4: if the dst file of an entry does not exist before processing and the
\* src file is not empty, then after processing the dst file exists and its
\* content equals the src file's content, at every position of the list, the
\* first included.
C4_CreatedEqualsSrc ==
    (Distinct /\ EntryOver /\ dst_before = Absent /\ SrcNonEmpty(src_tree[rel_fname]))
        => dst_tree[rel_fname] = File(src_tree[rel_fname].text)

\* What the dst file is when the entry leaves it as it found it: unchanged,
\* or empty if it had to be created.
LeftAlone == IF dst_before.kind = "file" THEN dst_before ELSE File(<<>>)

\* C5: if the src file of an entry is missing or unreadable, the dst file is
\* left unchanged by the entry (empty if it had to be created) and no patch
\* result is written to it.
C5_MissingSrcLeavesDst ==
    (Distinct /\ EntryOver /\ SrcMissing(src_tree[rel_fname]))
        => /\ dst_tree[rel_fname] = LeftAlone
           /\ ~Did("write", idx)

\* C6: a missing or unreadable src file does not end the run: it is reported,
\* no exception or exit ends the run in that entry, and the loop goes on, at
\* every position of the list, the first included.  Stated for entries whose
\* dst file exists, so that the missing src file is the only irregularity.
C6_MissingSrcGoesOn ==
    (Distinct /\ EntryOver /\ dst_before.kind = "file" /\ SrcMissing(src_tree[rel_fname]))
        => /\ Said("Could not open or read file", idx)
           /\ exc = "none"
           /\ pc # "raised"

\* C7: removing the dst file of an entry with an empty src file does not stop
\* the batch: a run that ends without a fatal condition has processed every
\* entry of the file list.
C7_DeleteGoesOn == (Distinct /\ pc = "returned") => idx = Len(file_list)

\* The four outcomes of an entry.
CreatedAndPatched(i) ==
    Did("touch", i) /\ Did("write", i) /\ ~Did("remove", i)
        /\ ~Said("Could not open or read file", i)

PatchedInPlace(i) ==
    ~Did("touch", i) /\ Did("write", i) /\ ~Did("remove", i)
        /\ ~Said("Could not open or read file", i)

Deleted(i) ==
    Did("remove", i) /\ ~Did("write", i) /\ ~Said("Could not open or read file", i)

FailedUnmodified(i) ==
    Said("Could not open or read file", i) /\ ~Did("write", i) /\ ~Did("remove", i)

\* C8: when patch_all returns normally, every entry of the file list is in
\* one of the four outcomes (they exclude one another): created and patched,
\* patched in place, deleted, or left unmodified with a reported failure.
C8_FourOutcomes ==
    (Distinct /\ pc = "returned")
        => \A i \in 1..Len(file_list) :
               CreatedAndPatched(i) \/ PatchedInPlace(i) \/ Deleted(i) \/ FailedUnmodified(i)

\* Lines 54-83 as one step: what one iteration of the loop leaves at dst_path
\* and reports, given the files d at dst_path and s at src_path and the values
\* dt and st that dst_text and src_text have when the iteration begins.
EntryOutcome(d, s, dt, st) ==
    LET dt1 == DstTextAfterOpen(d, dt)
        d1  == IF d.kind = "file" THEN d ELSE File(<<>>)
        st1 == SrcTextAfterOpen(s, st)
        rep == s.kind # "file"
        r   == patch_apply(generate_patchset(dt1.text, st1.text), dt1.text)
    IN  IF SrcIsEmpty(s) THEN [dst |-> Absent, reported |-> FALSE, exc |-> "none"]
        ELSE IF ~(dt1.bound /\ st1.bound)
             THEN [dst |-> d1, reported |-> rep, exc |-> "UnboundLocalError"]
        ELSE IF ~all(r.results)
             THEN [dst |-> d1, reported |-> rep, exc |-> SysExit.exc]
        ELSE [dst |-> File(WrittenText(r, dt1.text)), reported |-> rep, exc |-> "none"]

\* What the entry's own two files give when nothing precedes the entry.
OwnOutcome == EntryOutcome(dst_before, src_tree[rel_fname], Unbound, Unbound)

\* C9: entries are independent: the final state of an entry's dst file and
\* whether a failure is reported for it depend only on the entry's own src and
\* dst files, so they are what a run in which nothing precedes the entry gives.
C9_Independent ==
    (Distinct /\ EntryOver)
        => /\ dst_tree[rel_fname] = OwnOutcome.dst
           /\ Said("Could not open or read file", idx) = OwnOutcome.reported
           /\ exc = OwnOutcome.exc

\* EntryOutcome agrees with the actions on the first entry of every run.
FirstEntryIsOwnOutcome ==
    (EntryOver /\ idx = 1)
        => /\ dst_tree[rel_fname] = OwnOutcome.dst
           /\ Said("Could not open or read file", idx) = OwnOutcome.reported
           /\ exc = OwnOutcome.exc

HunkFailedAt(i) == Said("Some results were false!", i)

\* C10: a hunk failure aborts the batch: once apply_patchset has seen a failed
\* hunk for entry i, the run is over and no dst file of an entry after i is
\* created, written or removed.
C10_HunkFailureAborts ==
    \A i \in 1..Len(file_list) :
        HunkFailedAt(i)
            => /\ pc = "raised"
               /\ idx = i
               /\ \A k \in 1..Len(fs_log) : fs_log[k].idx <= i

\* C10 witness: a hunk of the first of two entries failed and the run is over.
C10_Witness ==
    /\ Len(file_list) = 2 /\ Distinct
    /\ HunkFailedAt(1)
    /\ pc = "raised"
    /\ ~Did("write", 1)

\* ------------------------------------------------------------ the process
\* Lines 111-116: main calls patch_all with no handler around it, so the
\* status of the process is the interpreter's: 1 for an exception that nothing
\* catches, 0 for a normal end and for SystemExit raised with no argument.
ExitStatus == IF exc \in {"none", "SystemExit"} THEN 0 ELSE 1

\* C11: if a patch application reports a hunk failure, the process ends with
\* a status that is not zero.
C11_HunkFailureExitsNonZero ==
    (\E i \in 1..Len(file_list) : HunkFailedAt(i))
        => /\ pc = "raised"
           /\ ExitStatus # 0

\* C11 witness: the run ended on a failed hunk, by the exception of line 34.
C11_Witness ==
    /\ HunkFailedAt(idx)
    /\ \E k \in 1..Len(results) : ~results[k]
    /\ pc = "raised" /\ exc = "NameError"
    /\ ExitStatus = 1

IsPatching(m) == m.msg = "Patching"

\* The entries taken by the for statement so far, in the order taken.
Taken == SelectSeq(stdout, IsPatching)

\* C12: entries are processed in the order of the file list: the k-th entry
\* taken is the k-th of the list, each position is taken once, everything read
\* or changed for position i comes before anything for a position j > i, and
\* it is the file the list names at that position.
C12_InListOrder ==
    /\ Len(Taken) = idx
    /\ \A k \in 1..Len(Taken) : Taken[k].idx = k
    /\ \A k \in 1..Len(fs_log) :
           /\ fs_log[k].idx \in 1..idx
           /\ fs_log[k].path = file_list[fs_log[k].idx]
    /\ \A k, l \in 1..Len(fs_log) :
           k < l => /\ fs_log[k].idx <= fs_log[l].idx
                    /\ (fs_log[k].idx = fs_log[l].idx
                           => <<fs_log[k].op, fs_log[k].tree>> # <<fs_log[l].op, fs_log[l].tree>>)

\* C12 witness: two entries were patched, the first wholly before the second.
C12_Witness ==
    /\ Len(file_list) = 2 /\ Distinct /\ pc = "returned"
    /\ Did("write", 1) /\ Did("write", 2)
    /\ Len(fs_log) = 6
    /\ fs_log[3].idx = 1 /\ fs_log[4].idx = 2

\* C13: the source tree is only read: no step of any run creates, writes or
\* removes a file under the source root.
C13_SrcTreeOnlyRead == [][src_tree' = src_tree]_vars

\* C13 witness: a run that read two src files, wrote one dst file and removed
\* another.
C13_Witness ==
    /\ Len(file_list) = 2 /\ Distinct /\ pc = "returned"
    /\ Did("write", 1) /\ Did("remove", 2)
    /\ src_tree[file_list[1]] # Absent /\ src_tree[file_list[2]] = File(<<>>)

SomeFlagFalse == \E k \in 1..Len(results) : ~results[k]

SaidSomewhere(msg) == \E k \in 1..Len(stdout) : stdout[k].msg = msg

\* C14: apply_patchset treats the application as failed as soon as one flag
\* is false, not only when all are: it then reports the failure and stops the
\* run, and it goes on as a success exactly when every flag is true, the
\* empty patch with no flag included.
C14_FailedIffSomeFlagFalse ==
    Applied
        => /\ SomeFlagFalse <=> (pc = "raised" /\ SaidSomewhere("Some results were false!"))
           /\ ~SomeFlagFalse <=> (pc = "call_done" /\ exc = "none" /\ stdout = <<>>)

\* C14 witness: one hunk applied and one failed, and the run stopped.
C14_Witness ==
    /\ Applied
    /\ results = <<TRUE, FALSE>>
    /\ pc = "raised"
    /\ SaidSomewhere("Some results were false!")

\* C15 as stated: if a hunk of an entry's patch failed, the failure is
\* reported and the best-effort text is still written to the entry's dst file.
C15_FailedOutputWritten ==
    \A i \in 1..Len(file_list) :
        HunkFailedAt(i) => /\ Did("write", i)
                           /\ dst_tree[file_list[i]] = File(out_text)

\* C15 amended: if a hunk of an entry's patch failed, the failure is reported
\* and nothing is written for the entry: its dst file is as the entry found
\* it (empty if it had to be created), the best-effort text staying in
\* self.out_text.
C15_FailedOutputNotWritten ==
    \A i \in 1..Len(file_list) :
        HunkFailedAt(i) => /\ idx = i
                           /\ ~Did("write", i)
                           /\ dst_tree[file_list[i]] = LeftAlone

\* C15 witness: a hunk failed for an existing dst file that differs from its
\* src file, and the dst file is as it was.
C15_Witness ==
    /\ HunkFailedAt(idx)
    /\ dst_before.kind = "file"
    /\ SrcNonEmpty(src_tree[rel_fname])
    /\ dst_before.text # src_tree[rel_fname].text
    /\ dst_tree[rel_fname] = dst_before
    /\ ~Did("write", idx)

\* The content of the entry's dst file as this iteration reads it: the
\* file's text, or the empty text when the file was missing and just created.
CurrentDstText == IF dst_before.kind = "file" THEN dst_before.text ELSE <<>>

\* C16: for every entry that is patched, the base of generate_patchset and
\* the target of apply_patchset are one text, the current content of the
\* entry's dst file as read in this iteration (empty if it was just created).
C16_BaseIsCurrentDst ==
    (Distinct /\ EntryOver /\ SrcNonEmpty(src_tree[rel_fname]) /\ Did("write", idx))
        => /\ upstream_text = in_text
           /\ in_text = Bound(CurrentDstText)

\* C17: patch_all returns from the whole batch as soon as it has removed one
\* dst file: at most one file is removed in a run, and nothing of an entry
\* after it is read, created, patched or removed.
C17_ReturnsAfterRemoval ==
    \A i \in 1..Len(file_list) :
        Did("remove", i)
            => /\ pc = "returned"
               /\ idx = i
               /\ Len(Taken) = i
               /\ fs_log[Len(fs_log)].op = "remove"
               /\ \A k \in 1..Len(fs_log) :
                      /\ fs_log[k].idx <= i
                      /\ fs_log[k].op = "remove" => k = Len(fs_log)

\* C17 witness: the first of two entries was removed and the second, which
\* has a src file to patch from, was left as it was.
C17_Witness ==
    /\ Len(file_list) = 2 /\ Distinct
    /\ Did("remove", 1)
    /\ pc = "returned"
    /\ SrcNonEmpty(src_tree[file_list[2]])
    /\ dst_tree[file_list[2]] # File(src_tree[file_list[2]].text)

Listed(p) == \E i \in 1..Len(file_list) : file_list[i] = p

\* C18: patch_all touches only the dst paths the file list names: no step of
\* any run, whatever the outcomes of the entries, changes a file of the dst
\* tree whose path is not in the list.
C18_UnlistedUntouched ==
    [][\A p \in Paths : ~Listed(p) => dst_tree'[p] = dst_tree[p]]_vars

\* C18 witness: the listed file was rewritten while an unlisted file exists
\* in the dst tree.
C18_Witness ==
    /\ Len(file_list) = 1 /\ pc = "returned"
    /\ Did("write", 1)
    /\ dst_before # dst_tree[file_list[1]]
    /\ \E p \in Paths : ~Listed(p) /\ dst_tree[p].kind = "file" /\ dst_tree[p].text # <<>>

====
